---- MODULE Spec2Model ----
(***************************************************************************)
(* Model of pronto.relationship.Relationship: a class that memoizes its    *)
(* instances in the class-level ordered dictionary _instances.             *)
(*                                                                         *)
(* Objects are heap cells identified by their index in `heap` (the index   *)
(* plays the part of id(obj)).  Python's None is the string None; a None   *)
(* passed where a list is expected is the one-element sequence NoneSeq.    *)
(***************************************************************************)
EXTENDS Integers, Sequences, FiniteSets, TLC

None == "None"
NoneSeq == <<None>>

\* ---------------------------------------------------------------- bounds
\* objects that may be allocated after the module has been imported
MaxAlloc == 2

\* names that are not part of the seed data
Names == {"x", "y"}

\* ------------------------------------------------------- python helpers
\* `v or d` for a string-or-None v
OrStr(v, d) == IF v = None \/ v = "" THEN d ELSE v

\* `v or list()` for a list-or-None v
OrList(v) == IF v = NoneSeq \/ v = <<>> THEN <<>> ELSE v

\* default values of the keyword parameters of __init__
DefaultArgs ==
  [symmetry |-> None, transitivity |-> None, reflexivity |-> None,
   complementary |-> None, prefix |-> None, direction |-> None,
   comment |-> None, aliases |-> NoneSeq]

\* an object fresh out of object.__new__: no attribute is set
Blank ==
  [set |-> FALSE, obo_name |-> None, symmetry |-> None,
   transitivity |-> None, reflexivity |-> None, complementary |-> None,
   prefix |-> None, direction |-> None, comment |-> None,
   aliases |-> <<>>]

\* ------------------------------------------- _instances (an OrderedDict)
\* a sequence of [key, obj] entries in key insertion order
Has(inst, k) == \E i \in 1..Len(inst) : inst[i].key = k

Get(inst, k) == inst[CHOOSE i \in 1..Len(inst) : inst[i].key = k].obj

\* inst[k] = o : an existing key keeps its position, a new key is appended
Put(inst, k, o) ==
  IF Has(inst, k)
    THEN [i \in 1..Len(inst) |->
            IF inst[i].key = k THEN [key |-> k, obj |-> o] ELSE inst[i]]
    ELSE Append(inst, [key |-> k, obj |-> o])

Keys(inst) == {inst[i].key : i \in 1..Len(inst)}

Values(inst) == {inst[i].obj : i \in 1..Len(inst)}

\* ---------------------------------------------------------- __new__
\* __new__ without the memo lookup: every call allocates
New_AlwaysAllocate(inst, hp, obo_name) ==
  [obj |-> Len(hp) + 1, heap |-> Append(hp, Blank)]

\* the object __new__ returns and the heap it leaves: the memoized
\* object, or a fresh cell from object.__new__
New(inst, hp, obo_name) ==
  IF Has(inst, obo_name)
    THEN [obj |-> Get(inst, obo_name), heap |-> hp]
    ELSE [obj |-> Len(hp) + 1, heap |-> Append(hp, Blank)]

\* ---------------------------------------------------------- __init__
\* the attribute assignments of __init__
InitFields(obo_name, a) ==
  [set |-> TRUE,
   obo_name |-> obo_name,
   symmetry |-> a.symmetry,
   transitivity |-> a.reflexivity,
   reflexivity |-> a.reflexivity,
   complementary |-> OrStr(a.complementary, ""),
   prefix |-> OrStr(a.prefix, ""),
   direction |-> OrStr(a.direction, ""),
   comment |-> OrStr(a.comment, ""),
   aliases |-> OrList(a.aliases)]

\* self._instances[alias] = self, for one alias
PutAlias(inst, alias, self) == Put(inst, alias, self)

\* for alias in self.aliases: self._instances[alias] = self
RECURSIVE PutAliases(_, _, _)
PutAliases(inst, als, self) ==
  IF als = <<>> THEN inst
  ELSE PutAliases(PutAlias(inst, Head(als), self), Tail(als), self)

\* __init__ without the membership test: every call assigns
InitBody_NoTest(inst, hp, self, obo_name, a) ==
  [inst |-> PutAliases(Put(inst, obo_name, self),
                       InitFields(obo_name, a).aliases, self),
   heap |-> [hp EXCEPT ![self] = InitFields(obo_name, a)]]

\* the registry and the heap __init__ leaves
InitBody(inst, hp, self, obo_name, a) ==
  IF Has(inst, obo_name)
    THEN [inst |-> inst, heap |-> hp]
    ELSE [inst |-> PutAliases(Put(inst, obo_name, self),
                              InitFields(obo_name, a).aliases, self),
          heap |-> [hp EXCEPT ![self] = InitFields(obo_name, a)]]

\* ------------------------------------------------- Relationship(...)
\* type.__call__: __new__, then __init__ on the object __new__ returned
Call(inst, hp, obo_name, a) ==
  LET nw == New(inst, hp, obo_name)
      it == InitBody(inst, nw.heap, nw.obj, obo_name, a)
  IN  [obj |-> nw.obj, inst |-> it.inst, heap |-> it.heap]

\* ------------------------------------------------------------ seed data
SeedCalls ==
  << [name |-> "is_a",
      args |-> [DefaultArgs EXCEPT !.symmetry = "False",
                  !.transitivity = "True", !.reflexivity = "True",
                  !.complementary = "can_be", !.direction = "bottomup"]],
     [name |-> "can_be",
      args |-> [DefaultArgs EXCEPT !.symmetry = "False",
                  !.transitivity = "True", !.reflexivity = "True",
                  !.complementary = "is_a", !.direction = "topdown"]],
     [name |-> "has_part",
      args |-> [DefaultArgs EXCEPT !.symmetry = "False",
                  !.transitivity = "True", !.reflexivity = "True",
                  !.complementary = "part_of", !.direction = "topdown"]],
     [name |-> "part_of",
      args |-> [DefaultArgs EXCEPT !.symmetry = "False",
                  !.transitivity = "True", !.reflexivity = "True",
                  !.complementary = "has_part", !.direction = "bottomup",
                  !.aliases = <<"is_part">>]],
     [name |-> "has_units",
      args |-> [DefaultArgs EXCEPT !.symmetry = "False",
                  !.transitivity = "False", !.reflexivity = None]],
     [name |-> "has_domain",
      args |-> [DefaultArgs EXCEPT !.symmetry = "False",
                  !.transitivity = "False"]] >>

\* the registry and the heap after the first n module-level calls
RECURSIVE Seeded(_)
Seeded(n) ==
  IF n = 0 THEN [obj |-> 0, inst |-> <<>>, heap |-> <<>>]
  ELSE Call(Seeded(n - 1).inst, Seeded(n - 1).heap,
            SeedCalls[n].name, SeedCalls[n].args)

SeedInstances == Seeded(Len(SeedCalls)).inst

SeedHeap == Seeded(Len(SeedCalls)).heap

\* the object the module-level call for a seed name returned
SeedObj(obo_name) ==
  Seeded(CHOOSE i \in 1..Len(SeedCalls) : SeedCalls[i].name = obo_name).obj

SeedNames == {SeedCalls[i].name : i \in 1..Len(SeedCalls)}

SeedKeys == Keys(SeedInstances)

NSeedObjs == Len(SeedHeap)

AllKeys == SeedKeys \cup Names

\* ------------------------------------------------------------- queries
\* utils.unique_everseen: the elements of s in order, repeats dropped
RECURSIVE UniqueEverseen(_, _)
UniqueEverseen(s, seen) ==
  IF s = <<>> THEN <<>>
  ELSE IF Head(s) \in seen THEN UniqueEverseen(Tail(s), seen)
  ELSE <<Head(s)>> \o UniqueEverseen(Tail(s), seen \cup {Head(s)})

\* (r for r in cls._instances.values() if r.direction == d)
RECURSIVE ValuesWithDirection(_, _, _)
ValuesWithDirection(inst, hp, d) ==
  IF inst = <<>> THEN <<>>
  ELSE IF hp[Head(inst).obj].direction = d
    THEN <<Head(inst).obj>> \o ValuesWithDirection(Tail(inst), hp, d)
    ELSE ValuesWithDirection(Tail(inst), hp, d)

\* topdown() and bottomup()
ByDirection(inst, hp, d) ==
  UniqueEverseen(ValuesWithDirection(inst, hp, d), {})

\* the message of the ValueError of complement(): str.format is never
\* applied to it, so the replacement field stays as written
ComplementMessage == <<"{}", " has a complementary but it was not defined !">>

\* complement() without the `if self.complementary` test: the lookup
\* runs for an empty complementary too
ComplementResult_NoEmptyTest(inst, hp, self) ==
  IF ~hp[self].set
    THEN [kind |-> "raise", exc |-> "AttributeError", msg |-> <<>>]
  ELSE IF Has(inst, hp[self].complementary)
    THEN [kind |-> "obj", obj |-> Get(inst, hp[self].complementary)]
  ELSE [kind |-> "raise", exc |-> "ValueError", msg |-> ComplementMessage]

\* complement() looking up the object's own name instead of its
\* complementary
ComplementResult_SelfLookup(inst, hp, self) ==
  IF ~hp[self].set
    THEN [kind |-> "raise", exc |-> "AttributeError", msg |-> <<>>]
  ELSE IF hp[self].complementary # ""
    THEN IF Has(inst, hp[self].obo_name)
           THEN [kind |-> "obj", obj |-> Get(inst, hp[self].obo_name)]
           ELSE [kind |-> "raise", exc |-> "ValueError",
                 msg |-> ComplementMessage]
  ELSE [kind |-> "none"]

\* what complement() hands back: an object, None, or a raised exception
ComplementResult(inst, hp, self) ==
  IF ~hp[self].set
    THEN [kind |-> "raise", exc |-> "AttributeError", msg |-> <<>>]
  ELSE IF hp[self].complementary # ""
    THEN IF Has(inst, hp[self].complementary)
           THEN [kind |-> "obj", obj |-> Get(inst, hp[self].complementary)]
           ELSE [kind |-> "raise", exc |-> "ValueError",
                 msg |-> ComplementMessage]
  ELSE [kind |-> "none"]

\* pickling with protocol 2: the arguments of __new__ come from
\* __getnewargs__, the state from __getstate__ (which returns None)
DumpsResult(hp, self) ==
  IF ~hp[self].set
    THEN [kind |-> "raise", exc |-> "AttributeError", msg |-> <<>>]
  ELSE [kind |-> "pickle", newargs |-> <<hp[self].obo_name>>,
        state |-> None]

\* --------------------------------------------------------------- state
VARIABLES
  heap,       \* the Relationship objects allocated so far
  instances,  \* Relationship._instances
  call,       \* the operation that ran last
  ret,        \* what that operation handed back
  first,      \* per name: the object and fields the first request returned
  pc,         \* per thread: position inside Relationship(...)
  targ,       \* per thread: the arguments of its call
  tself,      \* per thread: the object __new__ returned
  tals        \* per thread: the aliases its loop has still to insert

vars == <<heap, instances, call, ret, first, pc, targ, tself, tals>>

Threads == {1, 2}

NoCall == [op |-> "import", name |-> None, obj |-> 0]

NoFirst == [obj |-> 0, rec |-> Blank]

NoTarg == [name |-> None, args |-> DefaultArgs]

threadVars == <<pc, targ, tself, tals>>

seqVars == <<call, ret, first>>

Init ==
  /\ heap = SeedHeap
  /\ instances = SeedInstances
  /\ call = NoCall
  /\ ret = [kind |-> "none"]
  /\ first = [n \in AllKeys |->
               IF n \in SeedNames
                 THEN [obj |-> SeedObj(n), rec |-> SeedHeap[SeedObj(n)]]
                 ELSE NoFirst]
  /\ pc = [t \in Threads |-> "idle"]
  /\ targ = [t \in Threads |-> NoTarg]
  /\ tself = [t \in Threads |-> 0]
  /\ tals = [t \in Threads |-> <<>>]

\* room for one more object
CanAlloc == Len(heap) < NSeedObjs + MaxAlloc

\* ---------------------------------------------- arguments of the calls
CtorNames == Names \cup {"is_a", "is_part"}

CtorArgs ==
  { DefaultArgs,
    [DefaultArgs EXCEPT !.transitivity = "True"],
    [DefaultArgs EXCEPT !.symmetry = "True", !.reflexivity = "False",
       !.complementary = "y", !.prefix = "p", !.comment = "c"],
    [DefaultArgs EXCEPT !.direction = "topdown", !.aliases = <<"can_be">>],
    [DefaultArgs EXCEPT !.direction = "topdown", !.aliases = <<"y">>],
    [DefaultArgs EXCEPT !.complementary = "y", !.direction = "bottomup",
       !.aliases = <<"y", "is_part">>],
    [DefaultArgs EXCEPT !.aliases = <<"part_of">>] }

\* ------------------------------------------------- sequential actions
\* Relationship(obo_name, **a)
Construct(obo_name, a) ==
  /\ Has(instances, obo_name) \/ CanAlloc
  /\ heap' = Call(instances, heap, obo_name, a).heap
  /\ instances' = Call(instances, heap, obo_name, a).inst
  /\ call' = [op |-> "Relationship", name |-> obo_name, obj |-> 0]
  /\ ret' = [kind |-> "obj", obj |-> Call(instances, heap, obo_name, a).obj]
  /\ first' = IF first[obo_name].obj # 0 THEN first
              ELSE [first EXCEPT ![obo_name] =
                      [obj |-> ret'.obj, rec |-> heap'[ret'.obj]]]
  /\ UNCHANGED threadVars

\* complement() that registers a missing complementary on the fly
Complement_Creating(self) ==
  /\ call' = [op |-> "complement", name |-> None, obj |-> self]
  /\ ret' = ComplementResult(instances, heap, self)
  /\ IF heap[self].set /\ heap[self].complementary # ""
        /\ ~Has(instances, heap[self].complementary) /\ CanAlloc
       THEN /\ heap' = Call(instances, heap, heap[self].complementary,
                            DefaultArgs).heap
            /\ instances' = Call(instances, heap, heap[self].complementary,
                                 DefaultArgs).inst
       ELSE UNCHANGED <<heap, instances>>
  /\ UNCHANGED <<first, threadVars>>

\* self.complement()
Complement(self) ==
  /\ call' = [op |-> "complement", name |-> None, obj |-> self]
  /\ ret' = ComplementResult(instances, heap, self)
  /\ UNCHANGED <<heap, instances, first, threadVars>>

\* Relationship.topdown()
Topdown ==
  /\ call' = [op |-> "topdown", name |-> None, obj |-> 0]
  /\ ret' = [kind |-> "tuple", objs |-> ByDirection(instances, heap, "topdown")]
  /\ UNCHANGED <<heap, instances, first, threadVars>>

\* Relationship.bottomup()
Bottomup ==
  /\ call' = [op |-> "bottomup", name |-> None, obj |-> 0]
  /\ ret' = [kind |-> "tuple", objs |-> ByDirection(instances, heap, "bottomup")]
  /\ UNCHANGED <<heap, instances, first, threadVars>>

\* pickle.dumps(self, 2)
Dumps(self) ==
  /\ call' = [op |-> "dumps", name |-> None, obj |-> self]
  /\ ret' = DumpsResult(heap, self)
  /\ UNCHANGED <<heap, instances, first, threadVars>>

\* pickle.loads of a pickle whose newargs are (obo_name,): the object is
\* rebuilt by Relationship.__new__(Relationship, obo_name); the pickled
\* state is None, so neither __init__ nor __setstate__ runs
Loads(obo_name) ==
  /\ Has(instances, obo_name) \/ CanAlloc
  /\ heap' = New(instances, heap, obo_name).heap
  /\ call' = [op |-> "loads", name |-> obo_name, obj |-> 0]
  /\ ret' = [kind |-> "obj", obj |-> New(instances, heap, obo_name).obj]
  /\ UNCHANGED <<instances, first, threadVars>>

Next ==
  \/ \E n \in CtorNames, a \in CtorArgs : Construct(n, a)
  \/ \E o \in 1..Len(heap) : Complement(o)
  \/ Topdown
  \/ Bottomup
  \/ \E o \in 1..Len(heap) : Dumps(o)
  \/ \E n \in AllKeys : Loads(n)

Spec == Init /\ [][Next]_vars

TypeOK ==
  /\ Len(heap) <= NSeedObjs + MaxAlloc
  /\ Values(instances) \subseteq 1..Len(heap)

\* ------------------------------------------------- concurrent callers
\* Two threads run Relationship(obo_name, **a) with no lock taken: the
\* class owns _lock and _tlock but neither __new__ nor __init__ acquires
\* them, so the interpreter may switch threads between any two of the
\* steps below.
ConcNames == {"x", "y"}

ConcArgs ==
  { DefaultArgs,
    [DefaultArgs EXCEPT !.direction = "topdown", !.aliases = <<"y">>] }

\* __new__: the membership test and the lookup or the allocation
TNew(t, obo_name, a) ==
  /\ pc[t] = "idle"
  /\ Has(instances, obo_name) \/ CanAlloc
  /\ heap' = New(instances, heap, obo_name).heap
  /\ tself' = [tself EXCEPT ![t] = New(instances, heap, obo_name).obj]
  /\ targ' = [targ EXCEPT ![t] = [name |-> obo_name, args |-> a]]
  /\ pc' = [pc EXCEPT ![t] = "check"]
  /\ UNCHANGED <<instances, tals, seqVars>>

\* __init__: `if obo_name not in self._instances`
TInitCheck(t) ==
  /\ pc[t] = "check"
  /\ pc' = [pc EXCEPT ![t] =
              IF Has(instances, targ[t].name) THEN "done" ELSE "fields"]
  /\ UNCHANGED <<heap, instances, targ, tself, tals, seqVars>>

\* __init__: the attribute assignments
TInitFields(t) ==
  /\ pc[t] = "fields"
  /\ heap' = [heap EXCEPT ![tself[t]] = InitFields(targ[t].name, targ[t].args)]
  /\ pc' = [pc EXCEPT ![t] = "insert"]
  /\ UNCHANGED <<instances, targ, tself, tals, seqVars>>

\* __init__: self._instances[obo_name] = self
TInsert(t) ==
  /\ pc[t] = "insert"
  /\ instances' = Put(instances, targ[t].name, tself[t])
  /\ tals' = [tals EXCEPT ![t] = heap[tself[t]].aliases]
  /\ pc' = [pc EXCEPT ![t] = "alias"]
  /\ UNCHANGED <<heap, targ, tself, seqVars>>

\* __init__: one turn of the alias loop
TAlias(t) ==
  /\ pc[t] = "alias"
  /\ tals[t] # <<>>
  /\ instances' = PutAlias(instances, Head(tals[t]), tself[t])
  /\ tals' = [tals EXCEPT ![t] = Tail(tals[t])]
  /\ UNCHANGED <<heap, pc, targ, tself, seqVars>>

\* __init__ falls off its end: the caller now holds tself[t]
TReturn(t) ==
  /\ pc[t] = "alias"
  /\ tals[t] = <<>>
  /\ pc' = [pc EXCEPT ![t] = "done"]
  /\ UNCHANGED <<heap, instances, targ, tself, tals, seqVars>>

NextConc ==
  \/ \E t \in Threads, n \in ConcNames, a \in ConcArgs : TNew(t, n, a)
  \/ \E t \in Threads : TInitCheck(t)
  \/ \E t \in Threads : TInitFields(t)
  \/ \E t \in Threads : TInsert(t)
  \/ \E t \in Threads : TAlias(t)
  \/ \E t \in Threads : TReturn(t)

SpecConc == Init /\ [][NextConc]_vars

\* =================================================== sequential claims

\* C1 (as claimed): a request Relationship(N, ...) made after an earlier
\* request for N returns the object the first request for N returned, and
\* that object's fields are those the first request left.
C1_FirstWriteWins ==
  (call.op = "Relationship" /\ first[call.name].obj # 0)
    => /\ ret.obj = first[call.name].obj
       /\ heap[ret.obj] = first[call.name].rec

\* C3 (as claimed): no step remaps an existing registry key: a key that
\* maps to an object before a step maps to the same object after it.
C3_NoRemap ==
  [][\A k \in Keys(instances) :
       Has(instances', k) /\ Get(instances', k) = Get(instances, k)]_vars

\* C4 (as claimed): for every object R that is a registry value and every
\* alias a of R, the key a and the key R.obo_name both map to R; part_of
\* lists is_part among its aliases and both keys give one object.
C4_AliasIdentity ==
  /\ \A o \in Values(instances) :
       /\ Has(instances, heap[o].obo_name)
       /\ Get(instances, heap[o].obo_name) = o
       /\ \A i \in 1..Len(heap[o].aliases) :
            /\ Has(instances, heap[o].aliases[i])
            /\ Get(instances, heap[o].aliases[i]) = o
  /\ \E i \in 1..Len(heap[SeedObj("part_of")].aliases) :
       heap[SeedObj("part_of")].aliases[i] = "is_part"
  /\ Get(instances, "is_part") = Get(instances, "part_of")

\* C5 (as claimed): complement() on an object with a non-empty
\* complementary returns the object registered under that name when it is
\* a key; otherwise it raises an error whose message carries the missing
\* name; a failed call leaves registry and heap as they were.
C5_ComplementLookup ==
  [][(call'.op = "complement" /\ heap[call'.obj].set
        /\ heap[call'.obj].complementary # "")
      => IF Has(instances, heap[call'.obj].complementary)
           THEN /\ ret'.kind = "obj"
                /\ ret'.obj = Get(instances, heap[call'.obj].complementary)
           ELSE /\ ret'.kind = "raise"
                /\ \E i \in 1..Len(ret'.msg) :
                     ret'.msg[i] = heap[call'.obj].complementary
                /\ instances' = instances
                /\ heap' = heap]_vars

\* C6: complement() on an object whose complementary is empty returns
\* None and raises nothing, whatever the registry holds; has_units is
\* such an object.
C6_NoComplementIsNone ==
  /\ heap[SeedObj("has_units")].complementary = ""
  /\ (call.op = "complement" /\ heap[call.obj].set
        /\ heap[call.obj].complementary = "")
       => ret.kind = "none"

C6_Witness ==
  /\ call.op = "complement"
  /\ call.obj = SeedObj("has_units")
  /\ ret.kind = "none"
  /\ Len(instances) > Len(SeedInstances)

\* C7 (as claimed): for each X of is_a, can_be, has_part, part_of,
\* complement(complement(X)) is the object X itself, in the seeded
\* registry and after any later construction requests.
C7_ComplementInvolution ==
  \A n \in {"is_a", "can_be", "has_part", "part_of"} :
    LET c1 == ComplementResult(instances, heap, SeedObj(n))
    IN  /\ c1.kind = "obj"
        /\ ComplementResult(instances, heap, c1.obj)
             = [kind |-> "obj", obj |-> SeedObj(n)]

\* the registry values whose direction is d
Directed(d) == {o \in Values(instances) : heap[o].direction = d}

\* s lists objects in the order they were allocated, none twice
Ascending(s) == \A i, j \in 1..Len(s) : i < j => s[i] < s[j]

\* C8 (as claimed): topdown() / bottomup() return exactly the registry
\* values of that direction, each once, in the order the objects were
\* first registered; on the seed data they are (can_be, has_part) and
\* (is_a, part_of).
C8_ClassificationOrder ==
  /\ ByDirection(SeedInstances, SeedHeap, "bottomup")
       = <<SeedObj("is_a"), SeedObj("part_of")>>
  /\ ByDirection(SeedInstances, SeedHeap, "topdown")
       = <<SeedObj("can_be"), SeedObj("has_part")>>
  /\ call.op \in {"topdown", "bottomup"}
       => /\ {ret.objs[i] : i \in 1..Len(ret.objs)} = Directed(call.op)
          /\ Ascending(ret.objs)

C10_LoadsRegisters ==
  [][(call'.op = "loads" /\ ~Has(instances, call'.name))
       => /\ Has(instances', call'.name)
          /\ Get(instances', call'.name) = ret'.obj
          /\ heap'[ret'.obj] = InitFields(call'.name, DefaultArgs)]_vars

\* =================================================== concurrent claims

\* C2 (as claimed): two threads that both requested the same name hold,
\* once both calls have returned, one and the same object, and it is the
\* object registered under that name.
C2_OneRecordPerName ==
  \A t1, t2 \in Threads :
    (pc[t1] = "done" /\ pc[t2] = "done" /\ targ[t1].name = targ[t2].name)
      => /\ tself[t1] = tself[t2]
         /\ Get(instances, targ[t1].name) = tself[t1]

\* ------------------------------------------------- _from_obo_dict
\* A stanza d is a record of strings; a key the stanza does not hold has
\* the value Absent (d[key] raises KeyError).
Absent == "<absent>"

\* str.lower() on the stanza values that occur
Lower(v) ==
  IF v \in {"true", "True", "TRUE"} THEN "true"
  ELSE IF v \in {"false", "False", "FALSE"} THEN "false"
  ELSE v

\* a Python bool as a tri-state value
PyBool(b) == IF b THEN "True" ELSE "False"

\* `v or None` for a bool-or-None v
OrNone(v) == IF v = None \/ v = "False" THEN None ELSE v

\* a parser that gives None for a value that is neither true nor false
ParseTrue_Unknown(v) ==
  IF v = Absent THEN None
  ELSE IF Lower(v) = "true" THEN "True"
  ELSE IF Lower(v) = "false" THEN "False"
  ELSE None

\* try: d[key].lower() == "true"  except KeyError: None
ParseTrue(v) == IF v = Absent THEN None ELSE PyBool(Lower(v) = "true")

\* the adapter with the is_antisymetric value compared as written,
\* without lower()
OboArgs_CaseSensitive(d) ==
  [DefaultArgs EXCEPT
     !.symmetry =
        IF d.is_antisymetric = Absent
          THEN OrNone(ParseTrue(d.is_symmetric))
          ELSE PyBool(d.is_antisymetric = "false"),
     !.transitivity = ParseTrue(d.is_transitive),
     !.reflexivity = ParseTrue(d.is_reflexive),
     !.complementary = IF d.inverse_of = Absent THEN "" ELSE d.inverse_of]

\* the keyword arguments _from_obo_dict hands to Relationship(...)
OboArgs(d) ==
  [DefaultArgs EXCEPT
     !.symmetry =
        IF d.is_antisymetric = Absent
          THEN OrNone(ParseTrue(d.is_symmetric))
          ELSE PyBool(Lower(d.is_antisymetric) = "false"),
     !.transitivity = ParseTrue(d.is_transitive),
     !.reflexivity = ParseTrue(d.is_reflexive),
     !.complementary = IF d.inverse_of = Absent THEN "" ELSE d.inverse_of]

\* the adapter without its short-circuit, writing the stanza into the
\* object registered under the id
FromOboDictResult_Update(inst, hp, d) ==
  LET nw == New(inst, hp, d.id)
  IN  [obj |-> nw.obj,
       inst |-> Put(inst, d.id, nw.obj),
       heap |-> [nw.heap EXCEPT ![nw.obj] = InitFields(d.id, OboArgs(d))]]

\* the object _from_obo_dict returns, and the registry and heap it leaves
FromOboDictResult(inst, hp, d) ==
  IF Has(inst, d.id)
    THEN [obj |-> Get(inst, d.id), inst |-> inst, heap |-> hp]
    ELSE Call(inst, hp, d.id, OboArgs(d))

TriStrings == {Absent, "TRUE", "false", "maybe"}

\* stanzas for a new id without and with is_antisymetric, and stanzas
\* for an id the seed data registered
Stanzas ==
  [id : {"x"},
   inverse_of : {Absent, "y"},
   is_transitive : TriStrings,
   is_symmetric : TriStrings,
   is_reflexive : TriStrings,
   is_antisymetric : {Absent}]
  \cup
  [id : {"x"},
   inverse_of : {Absent},
   is_transitive : {Absent},
   is_symmetric : TriStrings,
   is_reflexive : {Absent, "maybe"},
   is_antisymetric : {"false", "FALSE", "true"}]
  \cup
  [id : {"is_a"},
   inverse_of : {Absent, "y"},
   is_transitive : {Absent, "false"},
   is_symmetric : {Absent, "TRUE"},
   is_reflexive : {Absent},
   is_antisymetric : {Absent, "false"}]

\* Relationship._from_obo_dict(d)
FromOboDict(d) ==
  /\ Has(instances, d.id) \/ CanAlloc
  /\ heap' = FromOboDictResult(instances, heap, d).heap
  /\ instances' = FromOboDictResult(instances, heap, d).inst
  /\ call' = [op |-> "_from_obo_dict", name |-> d.id, obj |-> 0, d |-> d]
  /\ ret' = [kind |-> "obj", obj |-> FromOboDictResult(instances, heap, d).obj]
  /\ first' = IF first[d.id].obj # 0 THEN first
              ELSE [first EXCEPT ![d.id] =
                      [obj |-> ret'.obj, rec |-> heap'[ret'.obj]]]
  /\ UNCHANGED threadVars

NextObo ==
  \/ \E d \in Stanzas : FromOboDict(d)
  \/ \E o \in 1..Len(heap) : Complement(o)

SpecObo == Init /\ [][NextObo]_vars

\* ------------------------------------------------- all callers together
\* Two threads inside Relationship(...) while a third caller runs whole
\* operations: requests, adapter calls, unpickling and queries.
AllStanzas ==
  { s \in Stanzas : /\ s.is_transitive = Absent
                    /\ s.is_symmetric = Absent
                    /\ s.is_reflexive = Absent
                    /\ s.is_antisymetric = "false"
                    /\ s.inverse_of = Absent }

NextAll ==
  \/ \E t \in Threads, a \in ConcArgs : TNew(t, "x", a)
  \/ \E t \in Threads : TInitCheck(t)
  \/ \E t \in Threads : TInitFields(t)
  \/ \E t \in Threads : TInsert(t)
  \/ \E t \in Threads : TAlias(t)
  \/ \E t \in Threads : TReturn(t)
  \/ \E a \in ConcArgs : Construct("x", a)
  \/ \E d \in AllStanzas : FromOboDict(d)
  \/ Loads("x")
  \/ \E o \in NSeedObjs..Len(heap) : Complement(o)
  \/ Topdown

SpecAll == Init /\ [][NextAll]_vars

\* =========================================================== fields

\* C11 (as claimed): a request for a name that is not yet a key allocates
\* an object whose every field is the argument of the same name (None
\* strings stored as empty, a None alias list as empty); the stored
\* transitivity is the transitivity argument.
C11_FieldsFromArgs ==
  [][\A n \in CtorNames, a \in CtorArgs :
       (Construct(n, a) /\ ~Has(instances, n))
         => heap'[ret'.obj] =
              [set |-> TRUE,
               obo_name |-> n,
               symmetry |-> a.symmetry,
               transitivity |-> a.transitivity,
               reflexivity |-> a.reflexivity,
               complementary |->
                 IF a.complementary = None THEN "" ELSE a.complementary,
               prefix |-> IF a.prefix = None THEN "" ELSE a.prefix,
               direction |-> IF a.direction = None THEN "" ELSE a.direction,
               comment |-> IF a.comment = None THEN "" ELSE a.comment,
               aliases |-> IF a.aliases = NoneSeq THEN <<>> ELSE a.aliases]
    ]_vars

\* ========================================================== adapter

\* a stanza value that is neither 'true' nor 'false' in any case
Malformed(v) ==
  v \notin {Absent, "true", "True", "TRUE", "false", "False", "FALSE"}

\* the tri-state a well-formed stanza value stands for
StanzaTri(v) ==
  IF v = Absent THEN None
  ELSE IF v \in {"true", "True", "TRUE"} THEN "True"
  ELSE "False"

\* C12 (as claimed): for an unregistered id and a stanza without
\* is_antisymetric, each of transitivity, symmetry, reflexivity of the
\* created object is true / false / unknown as its key is 'true' /
\* 'false' / absent; obo_name is the id and complementary is inverse_of.
C12_AdapterFields ==
  [][(call'.op = "_from_obo_dict" /\ ~Has(instances, call'.name)
        /\ call'.d.is_antisymetric = Absent)
      => LET d == call'.d
             r == heap'[ret'.obj]
         IN  /\ r.obo_name = d.id
             /\ r.complementary
                  = IF d.inverse_of = Absent THEN "" ELSE d.inverse_of
             /\ ~Malformed(d.is_transitive)
                  => r.transitivity = StanzaTri(d.is_transitive)
             /\ ~Malformed(d.is_symmetric)
                  => r.symmetry = StanzaTri(d.is_symmetric)
             /\ ~Malformed(d.is_reflexive)
                  => r.reflexivity = StanzaTri(d.is_reflexive)]_vars

\* C13: for an unregistered id, a stanza whose is_antisymetric is 'false'
\* in any case creates an object whose symmetry is true, whatever
\* is_symmetric holds.
C13_AntisymmetricOverride ==
  [][(call'.op = "_from_obo_dict" /\ ~Has(instances, call'.name)
        /\ call'.d.is_antisymetric \in {"false", "False", "FALSE"})
      => heap'[ret'.obj].symmetry = "True"]_vars

C13_Witness ==
  /\ call.op = "_from_obo_dict"
  /\ call.name = "x"
  /\ call.d.is_antisymetric = "FALSE"
  /\ call.d.is_symmetric = Absent
  /\ heap[ret.obj].set
  /\ heap[ret.obj].symmetry = "True"

\* C14: when the stanza id is already a key, the adapter returns the
\* object registered under it and leaves the registry and every object
\* as they were, whatever else the stanza holds.
C14_AdapterShortCircuit ==
  [][(call'.op = "_from_obo_dict" /\ Has(instances, call'.name))
      => /\ ret'.obj = Get(instances, call'.name)
         /\ instances' = instances
         /\ heap' = heap]_vars

C14_Witness ==
  /\ call.op = "_from_obo_dict"
  /\ call.name = "is_a"
  /\ call.d.is_transitive = "false"
  /\ call.d.inverse_of = "y"
  /\ ret.obj = SeedObj("is_a")
  /\ heap[ret.obj] = SeedHeap[SeedObj("is_a")]

\* C18 (amended): for an unregistered id the adapter registers the
\* stanza whatever its values; a value of is_reflexive that is neither
\* 'true' nor 'false' makes reflexivity false, and such a value of
\* is_symmetric makes symmetry unknown when is_antisymetric is absent.
C18_MalformedIsNotTrue ==
  [][(call'.op = "_from_obo_dict" /\ ~Has(instances, call'.name))
      => LET d == call'.d
             r == heap'[ret'.obj]
         IN  /\ Has(instances', d.id)
             /\ Get(instances', d.id) = ret'.obj
             /\ r.set
             /\ Malformed(d.is_reflexive) => r.reflexivity = "False"
             /\ (Malformed(d.is_symmetric) /\ d.is_antisymetric = Absent)
                  => r.symmetry = None]_vars

C18_Witness ==
  /\ call.op = "_from_obo_dict"
  /\ call.name = "x"
  /\ call.d.is_reflexive = "maybe"
  /\ call.d.is_symmetric = "maybe"
  /\ call.d.is_transitive = "maybe"
  /\ call.d.is_antisymetric = Absent
  /\ heap[ret.obj].set
  /\ heap[ret.obj].reflexivity = "False"
  /\ heap[ret.obj].symmetry = None

\* C18 (as claimed): for an unregistered id the adapter registers the
\* stanza, and a value of is_transitive, is_symmetric or is_reflexive
\* that is neither 'true' nor 'false' leaves the field unknown.
C18_MalformedIsUnknown ==
  [][(call'.op = "_from_obo_dict" /\ ~Has(instances, call'.name))
      => LET d == call'.d
             r == heap'[ret'.obj]
         IN  /\ Has(instances', d.id)
             /\ Get(instances', d.id) = ret'.obj
             /\ r.set
             /\ Malformed(d.is_transitive) => r.transitivity = None
             /\ Malformed(d.is_symmetric) => r.symmetry = None
             /\ Malformed(d.is_reflexive) => r.reflexivity = None]_vars

\* ====================================================== immutability

\* C15: no step changes a field of an object whose attributes have been
\* assigned, and no step removes a registry key -- with two threads
\* inside Relationship(...) and a third caller constructing, adapting,
\* unpickling and querying.
C15_RecordsImmutable ==
  [][/\ \A o \in 1..Len(heap) :
          heap[o].set => (o <= Len(heap') /\ heap'[o] = heap[o])
     /\ \A k \in Keys(instances) : Has(instances', k)]_vars

C15_Witness ==
  /\ call.op = "Relationship"
  /\ call.name = "x"
  /\ pc[1] = "done"
  /\ targ[1].name = "x"
  /\ targ[1].args # DefaultArgs
  /\ tself[1] = ret.obj
  /\ heap[ret.obj] = InitFields("x", DefaultArgs)

\* C16: a step that is topdown(), bottomup() or complement() leaves the
\* registry (keys, mapping, order) and every object as they were, whether
\* it returns or raises.
C16_QueriesArePure ==
  [][call'.op \in {"topdown", "bottomup", "complement"}
       => /\ instances' = instances
          /\ heap' = heap]_vars

C16_Witness ==
  /\ call.op = "complement"
  /\ ret.kind = "raise"
  /\ ret.exc = "ValueError"
  /\ ~Has(instances, heap[call.obj].complementary)

\* C17: a request with a complementary that is not registered succeeds;
\* when complement() has raised for the missing name and the caller then
\* registers that name, complement() on the same object gives the newly
\* registered object; complement() of an object whose complementary is a
\* key returns the object under that key.
C17_ComplementRecoverable ==
  [][/\ (call'.op = "Relationship" /\ ~Has(instances, call'.name))
          => /\ heap'[ret'.obj].set
             /\ Get(instances', call'.name) = ret'.obj
     /\ (call.op = "complement" /\ ret.kind = "raise"
           /\ ret.exc = "ValueError" /\ call'.op = "Relationship"
           /\ call'.name = heap[call.obj].complementary)
          => ComplementResult(instances', heap', call.obj)
               = [kind |-> "obj", obj |-> ret'.obj]
     /\ (call'.op = "complement" /\ heap[call'.obj].set
           /\ heap[call'.obj].complementary # ""
           /\ Has(instances, heap[call'.obj].complementary))
          => ret' = [kind |-> "obj",
                     obj |-> Get(instances, heap[call'.obj].complementary)]
    ]_vars

\* the complement was registered after the object that names it
C17_Witness ==
  /\ call.op = "complement"
  /\ ret.kind = "obj"
  /\ call.obj > NSeedObjs
  /\ ret.obj > call.obj
  /\ heap[ret.obj].obo_name = heap[call.obj].complementary

\* C19 (as claimed): every object that is a registry value is the value
\* of the key that is its own obo_name.
C19_KeyedUnderOwnName ==
  \A o \in Values(instances) :
    /\ Has(instances, heap[o].obo_name)
    /\ Get(instances, heap[o].obo_name) = o

\* C20 (as claimed): the object a construction request hands back has
\* all its attributes assigned and is a registry value, under every
\* interleaving of two threads.
C20_ReturnedIsInitialised ==
  \A t \in Threads :
    pc[t] = "done" => /\ heap[tself[t]].set
                      /\ tself[t] \in Values(instances)

====
